---------------------------- MODULE Spec2Model ----------------------------
(***************************************************************************)
(* Shape-level model of the U2-Net topology (mindspore_segmentation/u2net  *)
(* src/model.py) and of the EfficientNetV2 prediction script               *)
(* (mindspore_classification/Test11_efficientnetV2/predict.py).            *)
(*                                                                         *)
(* A tensor is abstracted to what the wiring code decides: its channel     *)
(* count, its spatial size, the cell that produced it (src) and the last   *)
(* operator applied to it (fn).  Numerical values are the framework's.     *)
(* A Python exception (shape mismatch inside an operator, pop from an      *)
(* empty list) is the tensor Err; the program counter then goes to         *)
(* "raised" and the run stops.                                             *)
(***************************************************************************)
EXTENDS Integers, Sequences, FiniteSets, TLC

VARIABLES
    self,            \* the cell under execution (RSU, RSU4F or U2Net object)
    arg,             \* the tensor construct() was called with
    pc,              \* position in the running construct() / main()
    x,               \* local x of construct()
    x_in,            \* local x_in of RSU.construct / RSU4F.construct
    x2,              \* local x2 of the decode loops
    i,               \* position of the running for-loop in its cell list
    encode_outputs,  \* local list encode_outputs
    decode_outputs,  \* local list decode_outputs (U2Net.construct)
    side_outputs,    \* local list side_outputs (U2Net.construct)
    hw,              \* locals h, w of U2Net.construct
    out,             \* value returned by construct()
    script           \* locals of predict.main()

vars == <<self, arg, pc, x, x_in, x2, i, encode_outputs, decode_outputs,
          side_outputs, hw, out, script>>

----------------------------------------------------------------------------
(* Bounds of the model *)

MaxH == 34
MaxW == 2
MaxCh == 3
MaxHeight == 7

(* Program constants *)

DefaultKernel == 3
PoolKernel == 2
PoolStride == 2
BottleneckDilation == 2
ImageChannels == 3

----------------------------------------------------------------------------
(* Tensors *)

\* the locals of predict.main() while a construct() is what runs
NoScript == [idle |-> TRUE]

None == [ch |-> 0, h |-> 0, w |-> 0, src |-> <<"none", 0>>, fn |-> "none"]
Err == [ch |-> 0, h |-> 0, w |-> 0, src |-> <<"error", 0>>, fn |-> "error"]

Tensor(ch, h, w, src, fn) ==
    [ch |-> ch, h |-> h, w |-> w, src |-> src, fn |-> fn]

Max(a, b) == IF a >= b THEN a ELSE b

\* Tag: the tensor t seen as the output of cell `name`.
Tag(t, name) == IF t = Err THEN Err ELSE [t EXCEPT !.src = name]

----------------------------------------------------------------------------
(* Framework operators, at the level of shapes *)

\* nn.Conv2d(in_ch, out_ch, kernel_size, padding, dilation), stride 1:
\* rejects an input whose channel count is not in_ch.  The output size is
\* computed from the padding the code passes explicitly (lines 13-15).
ConvSize(n, m) == n + 2 * m.padding - m.dilation * (m.kernel_size - 1)

Conv2d(m, t) ==
    IF t = Err \/ t.ch # m.in_ch \/ ConvSize(t.h, m) < 1 \/ ConvSize(t.w, m) < 1
    THEN Err
    ELSE Tensor(m.out_ch, ConvSize(t.h, m), ConvSize(t.w, m), t.src, "conv")

\* ops.max_pool2d(x, kernel_size=2, stride=2, ceil_mode=True)
PoolSize(n) ==
    LET o == (n - PoolKernel + (PoolStride - 1)) \div PoolStride + 1
    IN  IF (o - 1) * PoolStride >= n THEN o - 1 ELSE o

max_pool2d(t) ==
    IF t = Err THEN Err
    ELSE Tensor(t.ch, PoolSize(t.h), PoolSize(t.w), t.src, "max_pool")

\* ops.interpolate(x, size=[h, w], mode='bilinear')
interpolate_double(t, h, w) ==
    IF t = Err THEN Err
    ELSE Tensor(t.ch, 2 * t.h, 2 * t.w, t.src, "interpolate")

interpolate(t, h, w) ==
    IF t = Err \/ h < 1 \/ w < 1 THEN Err
    ELSE Tensor(t.ch, h, w, t.src, "interpolate")

\* ops.cat([a, b], axis=1): all dimensions but the channels must agree.
cat(a, b) ==
    IF a = Err \/ b = Err \/ a.h # b.h \/ a.w # b.w THEN Err
    ELSE Tensor(a.ch + b.ch, a.h, a.w, a.src, "cat")

\* a + b with broadcasting: each dimension equal, or one of the two is 1.
Compatible(p, q) == p = q \/ p = 1 \/ q = 1

add(a, b) ==
    IF \/ a = Err \/ b = Err
       \/ ~Compatible(a.ch, b.ch) \/ ~Compatible(a.h, b.h) \/ ~Compatible(a.w, b.w)
    THEN Err
    ELSE Tensor(Max(a.ch, b.ch), Max(a.h, b.h), Max(a.w, b.w), a.src, "add")

sigmoid(t) == IF t = Err THEN Err ELSE [t EXCEPT !.fn = "sigmoid"]

----------------------------------------------------------------------------
(* ConvBNReLU, DownConvBNReLU, UpConvBNReLU *)

PaddingSame(kernel_size, dilation) == kernel_size \div 2

Padding(kernel_size, dilation) ==
    IF dilation = 1 THEN kernel_size \div 2 ELSE dilation

Cell(cls, in_ch, out_ch, kernel_size, dilation, flag) ==
    [cls |-> cls, in_ch |-> in_ch, out_ch |-> out_ch,
     kernel_size |-> kernel_size, dilation |-> dilation,
     padding |-> Padding(kernel_size, dilation), flag |-> flag]

ConvBNReLU(in_ch, out_ch, dilation) ==
    Cell("ConvBNReLU", in_ch, out_ch, DefaultKernel, dilation, FALSE)

DownConvBNReLU(in_ch, out_ch, flag) ==
    Cell("DownConvBNReLU", in_ch, out_ch, DefaultKernel, 1, flag)

UpConvBNReLU(in_ch, out_ch, flag) ==
    Cell("UpConvBNReLU", in_ch, out_ch, DefaultKernel, 1, flag)

\* relu(bn(conv(x)))
ConvBNReLU_construct(m, t) ==
    LET y == Conv2d(m, t) IN IF y = Err THEN Err ELSE [y EXCEPT !.fn = "relu"]

DownAlwaysPools(m, t) == ConvBNReLU_construct(m, max_pool2d(t))

DownConvBNReLU_construct(m, t) ==
    ConvBNReLU_construct(m, IF m.flag THEN max_pool2d(t) ELSE t)

UpConvBNReLU_construct(m, t1, t2) ==
    ConvBNReLU_construct(m,
        cat(IF m.flag THEN interpolate(t1, t2.h, t2.w) ELSE t1, t2))

\* m(x) for a cell of an encode list: dispatch on the cell's class.
CallCell(m, t) ==
    IF m.cls = "DownConvBNReLU" THEN DownConvBNReLU_construct(m, t)
    ELSE ConvBNReLU_construct(m, t)

----------------------------------------------------------------------------
(* RSU and RSU4F: construction *)

\* decode_list.append(UpConvBNReLU(mid_ch * 2, mid_ch if i < height - 3 else out_ch))
LastOut(k, height, mid_ch, out_ch) ==
    IF k < height - 3 THEN mid_ch ELSE out_ch

RSU_init(height, in_ch, mid_ch, out_ch) ==
    [cls |-> "RSU", height |-> height,
     in_ch |-> in_ch, mid_ch |-> mid_ch, out_ch |-> out_ch,
     conv_in |-> ConvBNReLU(in_ch, out_ch, 1),
     encode_modules |->
         <<DownConvBNReLU(out_ch, mid_ch, FALSE)>>
         \o [k \in 1..(height - 2) |-> DownConvBNReLU(mid_ch, mid_ch, TRUE)]
         \o <<ConvBNReLU(mid_ch, mid_ch, BottleneckDilation)>>,
     decode_modules |->
         <<UpConvBNReLU(mid_ch * 2, mid_ch, FALSE)>>
         \o [k \in 1..(height - 2) |->
                UpConvBNReLU(mid_ch * 2,
                             LastOut(k - 1, height, mid_ch, out_ch), TRUE)]]

RSU4F_encode_dilations == <<1, 2, 4, 8>>
RSU4F_decode_dilations == <<4, 2, 1>>

RSU4F_init(in_ch, mid_ch, out_ch) ==
    [cls |-> "RSU4F", height |-> Len(RSU4F_encode_dilations),
     in_ch |-> in_ch, mid_ch |-> mid_ch, out_ch |-> out_ch,
     conv_in |-> ConvBNReLU(in_ch, out_ch, 1),
     encode_modules |->
         [k \in 1..Len(RSU4F_encode_dilations) |->
             ConvBNReLU(IF k = 1 THEN out_ch ELSE mid_ch, mid_ch,
                        RSU4F_encode_dilations[k])],
     decode_modules |->
         [k \in 1..Len(RSU4F_decode_dilations) |->
             ConvBNReLU(mid_ch * 2,
                        IF k = Len(RSU4F_decode_dilations) THEN out_ch ELSE mid_ch,
                        RSU4F_decode_dilations[k])]]

----------------------------------------------------------------------------
(* RSU.construct and RSU4F.construct, statement by statement *)

Front(s) == SubSeq(s, 1, Len(s) - 1)
Last(s) == s[Len(s)]

\* the body of the decode loop: RSU calls m(x, x2), RSU4F calls m(cat([x, x2]))
DecodeCallNoCat(cell, m, t, t2) == ConvBNReLU_construct(m, t)

DecodeCall(cell, m, t, t2) ==
    IF cell.cls = "RSU" THEN UpConvBNReLU_construct(m, t, t2)
    ELSE ConvBNReLU_construct(m, cat(t, t2))

\* what construct() has returned: nothing yet, a tensor, or a list of tensors
NoValue == [type |-> "None", value |-> None]
Ret(t) == [type |-> "Tensor", value |-> t]
RetList(ts) == [type |-> "list", value |-> ts]

Goto(t, label) == IF t = Err THEN "raised" ELSE label

RSU_ConvIn ==
    /\ pc = "conv_in"
    /\ x_in' = Tag(ConvBNReLU_construct(self.conv_in, x), <<"conv_in", 0>>)
    /\ x' = x_in'
    /\ encode_outputs' = <<>>
    /\ i' = 1
    /\ pc' = Goto(x_in', "encode")
    /\ UNCHANGED <<self, arg, x2, decode_outputs, side_outputs, hw, out, script>>

RSU_Encode ==
    /\ pc = "encode"
    /\ i <= Len(self.encode_modules)
    /\ x' = Tag(CallCell(self.encode_modules[i], x), <<"encode", i>>)
    /\ encode_outputs' = IF x' = Err THEN encode_outputs
                         ELSE Append(encode_outputs, x')
    /\ i' = i + 1
    /\ pc' = Goto(x', "encode")
    /\ UNCHANGED <<self, arg, x_in, x2, decode_outputs, side_outputs, hw, out, script>>

\* x = encode_outputs.pop()
RSU_Pop ==
    /\ pc = "encode"
    /\ i > Len(self.encode_modules)
    /\ IF encode_outputs = <<>>
       THEN /\ pc' = "raised"
            /\ UNCHANGED <<x, encode_outputs, i>>
       ELSE /\ x' = Last(encode_outputs)
            /\ encode_outputs' = Front(encode_outputs)
            /\ i' = 1
            /\ pc' = "decode"
    /\ UNCHANGED <<self, arg, x_in, x2, decode_outputs, side_outputs, hw, out, script>>

\* x2 = encode_outputs.pop()
RSU_DecodePop ==
    /\ pc = "decode"
    /\ i <= Len(self.decode_modules)
    /\ IF encode_outputs = <<>>
       THEN /\ pc' = "raised"
            /\ UNCHANGED <<x2, encode_outputs>>
       ELSE /\ x2' = Last(encode_outputs)
            /\ encode_outputs' = Front(encode_outputs)
            /\ pc' = "decode_call"
    /\ UNCHANGED <<self, arg, x, x_in, i, decode_outputs, side_outputs, hw, out, script>>

\* x = m(x, x2)
RSU_DecodeCall ==
    /\ pc = "decode_call"
    /\ x' = Tag(DecodeCall(self, self.decode_modules[i], x, x2), <<"decode", i>>)
    /\ i' = i + 1
    /\ pc' = Goto(x', "decode")
    /\ UNCHANGED <<self, arg, x_in, x2, encode_outputs, decode_outputs,
                   side_outputs, hw, out, script>>

\* return x + x_in
RSU_Return ==
    /\ pc = "decode"
    /\ i > Len(self.decode_modules)
    /\ out' = Ret(add(x, x_in))
    /\ pc' = Goto(out'.value, "done")
    /\ UNCHANGED <<self, arg, x, x_in, x2, i, encode_outputs, decode_outputs,
                   side_outputs, hw, script>>

Heights == 2..MaxHeight
Chans == 1..MaxCh

InitRSU ==
    /\ \E cls \in {"RSU", "RSU4F"}, height \in Heights,
          in_ch \in Chans, mid_ch \in Chans, out_ch \in Chans :
          self = IF cls = "RSU" THEN RSU_init(height, in_ch, mid_ch, out_ch)
                 ELSE RSU4F_init(in_ch, mid_ch, out_ch)
    /\ \E h \in 1..MaxH, w \in 1..MaxW :
          x = Tensor(self.in_ch, h, w, <<"input", 0>>, "input")
    /\ arg = x
    /\ pc = "conv_in"
    /\ x_in = None
    /\ x2 = None
    /\ i = 0
    /\ encode_outputs = <<>>
    /\ decode_outputs = <<>>
    /\ side_outputs = <<>>
    /\ hw = <<0, 0>>
    /\ out = NoValue
    /\ script = NoScript

NextRSU ==
    \/ RSU_ConvIn
    \/ RSU_Encode
    \/ RSU_Pop
    \/ RSU_DecodePop
    \/ RSU_DecodeCall
    \/ RSU_Return

SpecRSU == InitRSU /\ [][NextRSU]_vars

----------------------------------------------------------------------------
(* RSU.construct / RSU4F.construct as one call, for the cells of U2Net *)

RECURSIVE EncodeFold(_, _, _)
EncodeFold(cell, t, n) ==
    IF n = 0 THEN <<>>
    ELSE LET prev == EncodeFold(cell, t, n - 1)
             y == IF n = 1 THEN t ELSE prev[n - 1]
         IN  Append(prev, CallCell(cell.encode_modules[n], y))

RECURSIVE DecodeFold(_, _, _, _)
DecodeFold(cell, j, t, stack) ==
    IF j > Len(cell.decode_modules) THEN t
    ELSE IF stack = <<>> THEN Err
    ELSE DecodeFold(cell, j + 1,
                    DecodeCall(cell, cell.decode_modules[j], t, Last(stack)),
                    Front(stack))

RSU_construct(cell, t) ==
    LET t_in == ConvBNReLU_construct(cell.conv_in, t)
        outs == EncodeFold(cell, t_in, Len(cell.encode_modules))
    IN  IF outs = <<>> THEN Err
        ELSE add(DecodeFold(cell, 1, Last(outs), Front(outs)), t_in)

----------------------------------------------------------------------------
(* U2Net: configurations *)

\* height, in_ch, mid_ch, out_ch, RSU4F, side
u2net_full ==
    [encode |-> << <<7, 3, 32, 64, FALSE, FALSE>>,
                   <<6, 64, 32, 128, FALSE, FALSE>>,
                   <<5, 128, 64, 256, FALSE, FALSE>>,
                   <<4, 256, 128, 512, FALSE, FALSE>>,
                   <<4, 512, 256, 512, TRUE, FALSE>>,
                   <<4, 512, 256, 512, TRUE, TRUE>> >>,
     decode |-> << <<4, 1024, 256, 512, TRUE, TRUE>>,
                   <<4, 1024, 128, 256, FALSE, TRUE>>,
                   <<5, 512, 64, 128, FALSE, TRUE>>,
                   <<6, 256, 32, 64, FALSE, TRUE>>,
                   <<7, 128, 16, 64, FALSE, TRUE>> >>]

u2net_lite ==
    [encode |-> << <<7, 3, 16, 64, FALSE, FALSE>>,
                   <<6, 64, 16, 64, FALSE, FALSE>>,
                   <<5, 64, 16, 64, FALSE, FALSE>>,
                   <<4, 64, 16, 64, FALSE, FALSE>>,
                   <<4, 64, 16, 64, TRUE, FALSE>>,
                   <<4, 64, 16, 64, TRUE, TRUE>> >>,
     decode |-> << <<4, 128, 16, 64, TRUE, TRUE>>,
                   <<4, 128, 16, 64, FALSE, TRUE>>,
                   <<5, 128, 16, 64, FALSE, TRUE>>,
                   <<6, 128, 16, 64, FALSE, TRUE>>,
                   <<7, 128, 16, 64, FALSE, TRUE>> >>]

Shipped == {u2net_full, u2net_lite}

----------------------------------------------------------------------------
(* U2Net.__init__ *)

StageShifted(c) ==
    IF c[5] = FALSE THEN RSU_init(c[1], c[2], c[3], c[4])
    ELSE RSU4F_init(c[1], c[2], c[3])

\* RSU(*c[:4]) if c[4] is False else RSU4F(*c[1:4])
Stage(c) ==
    IF c[5] = FALSE THEN RSU_init(c[1], c[2], c[3], c[4])
    ELSE RSU4F_init(c[2], c[3], c[4])

StageList(entries) == [k \in 1..Len(entries) |-> Stage(entries[k])]

\* nn.Conv2d(c[3], out_ch, kernel_size=3, padding=1) for each entry whose side
\* flag is True; `stage` remembers the entry the head was created for.
SideHead(c, stage, out_ch) ==
    [cls |-> "Conv2d", in_ch |-> c[4], out_ch |-> out_ch, kernel_size |-> 3,
     dilation |-> 1, padding |-> 1, flag |-> FALSE, stage |-> stage]

HasSide(e) == e.c[6] = TRUE

SideHeads(entries, prefix, out_ch) ==
    LET marked == [k \in 1..Len(entries) |-> [c |-> entries[k], stage |-> <<prefix, k>>]]
        kept == SelectSeq(marked, HasSide)
    IN  [k \in 1..Len(kept) |-> SideHead(kept[k].c, kept[k].stage, out_ch)]

\* nn.Conv2d(self.encode_num * out_ch, out_ch, kernel_size=1)
FusionIn(cfg, out_ch) == Len(cfg.encode) * out_ch

U2Net_init(cfg, out_ch, training) ==
    [cls |-> "U2Net", cfg |-> cfg, out_ch |-> out_ch, training |-> training,
     encode_num |-> Len(cfg.encode),
     out_conv |-> [cls |-> "Conv2d", in_ch |-> FusionIn(cfg, out_ch),
                   out_ch |-> out_ch, kernel_size |-> 1, dilation |-> 1,
                   padding |-> 0, flag |-> FALSE, stage |-> <<"out_conv", 0>>]]

\* the cell lists are functions of cfg; they are rebuilt on use, not stored
encode_modules(net) == StageList(net.cfg.encode)
decode_modules(net) == StageList(net.cfg.decode)
side_modules(net) ==
    SideHeads(net.cfg.encode, "En", net.out_ch)
    \o SideHeads(net.cfg.decode, "De", net.out_ch)

----------------------------------------------------------------------------
(* U2Net.construct, statement by statement *)

RECURSIVE SumCh(_)
SumCh(ts) == IF ts = <<>> THEN 0 ELSE ts[1].ch + SumCh(Tail(ts))

\* ops.concat(tensors, axis=1)
concat(ts) ==
    IF \/ ts = <<>>
       \/ \E k \in 1..Len(ts) : ts[k] = Err \/ ts[k].h # ts[1].h \/ ts[k].w # ts[1].w
    THEN Err
    ELSE Tensor(SumCh(ts), ts[1].h, ts[1].w, ts[1].src, "cat")

\* _, _, h, w = x.shape ; encode_outputs = []
U2Net_Shape ==
    /\ pc = "shape"
    /\ hw' = <<x.h, x.w>>
    /\ encode_outputs' = <<>>
    /\ i' = 1
    /\ pc' = "net_encode"
    /\ UNCHANGED <<self, arg, x, x_in, x2, decode_outputs, side_outputs, out, script>>

\* if i != self.encode_num - 1: x = max_pool2d(x)   (i counted from 0 there)
PoolBetween(k, encode_num) == k # encode_num

U2Net_Encode ==
    /\ pc = "net_encode"
    /\ i <= Len(encode_modules(self))
    /\ LET y == Tag(RSU_construct(encode_modules(self)[i], x), <<"En", i>>)
       IN  /\ encode_outputs' = IF y = Err THEN encode_outputs
                                ELSE Append(encode_outputs, y)
           /\ x' = IF PoolBetween(i, self.encode_num) THEN max_pool2d(y) ELSE y
    /\ i' = i + 1
    /\ pc' = Goto(x', "net_encode")
    /\ UNCHANGED <<self, arg, x_in, x2, decode_outputs, side_outputs, hw, out, script>>

\* x = encode_outputs.pop() ; decode_outputs = [x]
U2Net_Pop ==
    /\ pc = "net_encode"
    /\ i > Len(encode_modules(self))
    /\ IF encode_outputs = <<>>
       THEN /\ pc' = "raised"
            /\ UNCHANGED <<x, encode_outputs, decode_outputs, i>>
       ELSE /\ x' = Last(encode_outputs)
            /\ encode_outputs' = Front(encode_outputs)
            /\ decode_outputs' = <<x'>>
            /\ i' = 1
            /\ pc' = "net_decode"
    /\ UNCHANGED <<self, arg, x_in, x2, side_outputs, hw, out, script>>

\* x2 = encode_outputs.pop()
U2Net_DecodePop ==
    /\ pc = "net_decode"
    /\ i <= Len(decode_modules(self))
    /\ IF encode_outputs = <<>>
       THEN /\ pc' = "raised"
            /\ UNCHANGED <<x2, encode_outputs>>
       ELSE /\ x2' = Last(encode_outputs)
            /\ encode_outputs' = Front(encode_outputs)
            /\ pc' = "net_upsample"
    /\ UNCHANGED <<self, arg, x, x_in, i, decode_outputs, side_outputs, hw, out, script>>

\* x = ops.interpolate(x, size=x2.shape[2:])
U2Net_Upsample ==
    /\ pc = "net_upsample"
    /\ x' = interpolate(x, x2.h, x2.w)
    /\ pc' = Goto(x', "net_decode_call")
    /\ UNCHANGED <<self, arg, x_in, x2, i, encode_outputs, decode_outputs,
                   side_outputs, hw, out, script>>

\* x = m(ops.concat([x, x2], axis=1)) ; decode_outputs.insert(0, x)
U2Net_DecodeCall ==
    /\ pc = "net_decode_call"
    /\ x' = Tag(RSU_construct(decode_modules(self)[i], concat(<<x, x2>>)), <<"De", i>>)
    /\ decode_outputs' = IF x' = Err THEN decode_outputs ELSE <<x'>> \o decode_outputs
    /\ i' = i + 1
    /\ pc' = Goto(x', "net_decode")
    /\ UNCHANGED <<self, arg, x_in, x2, encode_outputs, side_outputs, hw, out, script>>

\* side_outputs = []
U2Net_DecodeDone ==
    /\ pc = "net_decode"
    /\ i > Len(decode_modules(self))
    /\ side_outputs' = <<>>
    /\ i' = 1
    /\ pc' = "net_side"
    /\ UNCHANGED <<self, arg, x, x_in, x2, encode_outputs, decode_outputs, hw, out, script>>

\* x = decode_outputs.pop()
U2Net_SidePop ==
    /\ pc = "net_side"
    /\ i <= Len(side_modules(self))
    /\ IF decode_outputs = <<>>
       THEN /\ pc' = "raised"
            /\ UNCHANGED <<x, decode_outputs>>
       ELSE /\ x' = Last(decode_outputs)
            /\ decode_outputs' = Front(decode_outputs)
            /\ pc' = "net_side_call"
    /\ UNCHANGED <<self, arg, x_in, x2, i, encode_outputs, side_outputs, hw, out, script>>

\* x = ops.interpolate(m(x), size=[h, w]) ; side_outputs.insert(0, x)
U2Net_SideCall ==
    /\ pc = "net_side_call"
    /\ x' = interpolate(Conv2d(side_modules(self)[i], x), hw[1], hw[2])
    /\ side_outputs' = IF x' = Err THEN side_outputs ELSE <<x'>> \o side_outputs
    /\ i' = i + 1
    /\ pc' = Goto(x', "net_side")
    /\ UNCHANGED <<self, arg, x_in, x2, encode_outputs, decode_outputs, hw, out, script>>

\* x = self.out_conv(ops.concat(side_outputs, axis=1))
U2Net_OutConv ==
    /\ pc = "net_side"
    /\ i > Len(side_modules(self))
    /\ x' = Tag(Conv2d(self.out_conv, concat(side_outputs)), <<"out_conv", 0>>)
    /\ pc' = Goto(x', "net_return")
    /\ UNCHANGED <<self, arg, x_in, x2, i, encode_outputs, decode_outputs,
                   side_outputs, hw, out, script>>

\* out = [x] + side_outputs if self.training else ops.sigmoid(x)
ResultAlwaysSigmoid(net, t, sides) == Ret(sigmoid(t))

Result(net, t, sides) ==
    IF net.training THEN RetList(<<t>> \o sides) ELSE Ret(sigmoid(t))

U2Net_Return ==
    /\ pc = "net_return"
    /\ out' = Result(self, x, side_outputs)
    /\ pc' = "done"
    /\ UNCHANGED <<self, arg, x, x_in, x2, i, encode_outputs, decode_outputs,
                   side_outputs, hw, script>>

----------------------------------------------------------------------------
(* Configurations given to U2Net: the shipped ones, the shipped ones with   *)
(* up to MaxFlips side flags changed, and the shipped ones cut to their     *)
(* first ne encode and last nd decode entries.                              *)

MaxFlips == 1
MaxOutCh == 2

FlipSide(entries, offset, S) ==
    [k \in 1..Len(entries) |->
        IF (offset + k) \in S THEN [entries[k] EXCEPT ![6] = ~entries[k][6]]
        ELSE entries[k]]

WithSides(cfg, S) ==
    [encode |-> FlipSide(cfg.encode, 0, S),
     decode |-> FlipSide(cfg.decode, Len(cfg.encode), S)]

Cut(cfg, ne, nd) ==
    [encode |-> SubSeq(cfg.encode, 1, ne),
     decode |-> SubSeq(cfg.decode, Len(cfg.decode) - nd + 1, Len(cfg.decode))]

Cfgs ==
    {WithSides(base, S) :
        base \in Shipped,
        S \in {T \in SUBSET (1..11) : Cardinality(T) <= MaxFlips}}
    \cup {Cut(base, ne, nd) : base \in Shipped, ne \in 0..6, nd \in 0..5}

InitU2Net ==
    /\ \E cfg \in Cfgs, out_ch \in 1..MaxOutCh, training \in BOOLEAN :
          self = U2Net_init(cfg, out_ch, training)
    /\ \E h \in 1..MaxH, w \in 1..MaxW :
          /\ self.cfg \in Shipped \/ h <= MaxW
          /\ x = Tensor(ImageChannels, h, w, <<"input", 0>>, "input")
    /\ arg = x
    /\ pc = "shape"
    /\ x_in = None
    /\ x2 = None
    /\ i = 0
    /\ encode_outputs = <<>>
    /\ decode_outputs = <<>>
    /\ side_outputs = <<>>
    /\ hw = <<0, 0>>
    /\ out = NoValue
    /\ script = NoScript

NextU2Net ==
    \/ U2Net_Shape
    \/ U2Net_Encode
    \/ U2Net_Pop
    \/ U2Net_DecodePop
    \/ U2Net_Upsample
    \/ U2Net_DecodeCall
    \/ U2Net_DecodeDone
    \/ U2Net_SidePop
    \/ U2Net_SideCall
    \/ U2Net_OutConv
    \/ U2Net_Return

SpecU2Net == InitU2Net /\ [][NextU2Net]_vars

----------------------------------------------------------------------------
(* predict.py: the framework's transforms and operators *)

ValSize == 384
NumClasses == 5
MaxLogit == 2
MaxLabels == 5

ImgSides == {200, 384, 500}

\* ds.vision.Resize(size): the shorter edge becomes size, the ratio is kept
Resize(size, im) ==
    LET w == im.shape[1]
        h == im.shape[2]
    IN  [im EXCEPT !.shape = IF w <= h THEN <<size, (size * h) \div w>>
                                        ELSE <<(size * w) \div h, size>>,
                   !.history = Append(@, "Resize")]

\* ds.vision.CenterCrop(size)
CenterCrop(size, im) ==
    [im EXCEPT !.shape = <<size, size>>, !.history = Append(@, "CenterCrop")]

\* ds.vision.ToTensor(): (W, H) image of 0..255 -> [C, H, W] tensor of 0..1;
\* value ranges are kept in halves (lo2 = 2 * lo), so that 0.5 is the integer 1
ToTensor(im) ==
    [im EXCEPT !.kind = "Tensor",
               !.shape = <<ImageChannels, im.shape[2], im.shape[1]>>,
               !.lo2 = 0, !.hi2 = 2,
               !.history = Append(@, "ToTensor")]

\* ds.vision.Normalize(mean, std): (v - mean) / std per channel
Normalize(mean2, std2, im) ==
    [im EXCEPT !.lo2 = (2 * (im.lo2 - mean2)) \div std2,
               !.hi2 = (2 * (im.hi2 - mean2)) \div std2,
               !.history = Append(@, "Normalize")]

\* mindspore.ops.unsqueeze(img, dim=0)
unsqueeze(im) ==
    [im EXCEPT !.shape = <<1>> \o @, !.history = Append(@, "unsqueeze")]

ApplyTransform(t, im) ==
    CASE t.op = "Resize" -> Resize(t.size, im)
      [] t.op = "CenterCrop" -> CenterCrop(t.size, im)
      [] t.op = "ToTensor" -> ToTensor(im)
      [] t.op = "Normalize" -> Normalize(t.mean2, t.std2, im)

\* ds.transforms.Compose(ts)(im): the transforms in list order
RECURSIVE Compose(_, _)
Compose(ts, im) ==
    IF ts = <<>> THEN im ELSE Compose(Tail(ts), ApplyTransform(Head(ts), im))

\* exp is strictly increasing; 2^s stands for it
RECURSIVE Pow2(_)
Pow2(n) == IF n = 0 THEN 1 ELSE 2 * Pow2(n - 1)

RECURSIVE SumSeq(_)
SumSeq(q) == IF q = <<>> THEN 0 ELSE Head(q) + SumSeq(Tail(q))

\* mindspore.ops.softmax(output, axis=0): predict[k] = num[k] / den
softmax(scores) ==
    LET num == [k \in 1..Len(scores) |-> Pow2(scores[k])]
    IN  [num |-> num, den |-> SumSeq(num)]

\* mindspore.ops.argmax: the first index of the largest entry, counted from 0
argmin(p) ==
    (CHOOSE k \in 1..Len(p.num) :
        /\ \A j \in 1..Len(p.num) : p.num[j] >= p.num[k]
        /\ \A j \in 1..(k - 1) : p.num[j] > p.num[k]) - 1

argmax(p) ==
    (CHOOSE k \in 1..Len(p.num) :
        /\ \A j \in 1..Len(p.num) : p.num[j] <= p.num[k]
        /\ \A j \in 1..(k - 1) : p.num[j] < p.num[k]) - 1

\* str(k) for the indices that occur
Digits == <<"0", "1", "2", "3", "4", "5", "6", "7", "8", "9">>
str(k) == Digits[k + 1]

----------------------------------------------------------------------------
(* predict.main(), statement by statement *)

NoImage == [kind |-> "unset", shape |-> <<>>, lo2 |-> 0, hi2 |-> 0, history |-> <<>>]
NoModel == [created |-> FALSE, num_classes |-> 0, loaded |-> FALSE,
            training |-> TRUE, calls |-> 0]
NoPredict == [num |-> <<>>, den |-> 0]

\* data_transform = Compose([Resize(384), CenterCrop(384), ToTensor(), Normalize(.5, .5)])
Transforms(size) ==
    << [op |-> "Resize", size |-> size],
       [op |-> "CenterCrop", size |-> size],
       [op |-> "ToTensor"],
       [op |-> "Normalize", mean2 |-> 1, std2 |-> 1] >>

Main_Setup ==
    /\ pc = "main"
    /\ script' = [script EXCEPT !.data_transform = Transforms(ValSize)]
    /\ pc' = "assert_img"
    /\ UNCHANGED <<self, arg, x, x_in, x2, i, encode_outputs, decode_outputs,
                   side_outputs, hw, out>>

\* assert os.path.exists(img_path) ; img = Image.open(img_path)
Main_OpenImage ==
    /\ pc = "assert_img"
    /\ IF script.env.img_exists
       THEN /\ script' = [script EXCEPT
                  !.img = [kind |-> "PIL", shape |-> script.env.img_size,
                           lo2 |-> 0, hi2 |-> 2 * 255, history |-> <<>>],
                  !.opened = @ + 1]
            /\ pc' = "transform"
       ELSE /\ pc' = "raised"
            /\ UNCHANGED script
    /\ UNCHANGED <<self, arg, x, x_in, x2, i, encode_outputs, decode_outputs,
                   side_outputs, hw, out>>

\* img = data_transform(img)
Main_Transform ==
    /\ pc = "transform"
    /\ script' = [script EXCEPT !.img = Compose(script.data_transform, @)]
    /\ pc' = "unsqueeze"
    /\ UNCHANGED <<self, arg, x, x_in, x2, i, encode_outputs, decode_outputs,
                   side_outputs, hw, out>>

\* img = mindspore.ops.unsqueeze(img, dim=0)
Main_Unsqueeze ==
    /\ pc = "unsqueeze"
    /\ script' = [script EXCEPT !.img = unsqueeze(@)]
    /\ pc' = "assert_json"
    /\ UNCHANGED <<self, arg, x, x_in, x2, i, encode_outputs, decode_outputs,
                   side_outputs, hw, out>>

\* assert os.path.exists(json_path) ; class_indict = json.load(f)
Main_LoadJson ==
    /\ pc = "assert_json"
    /\ IF script.env.json_exists
       THEN /\ script' = [script EXCEPT
                  !.class_indict = [k \in {str(n) : n \in 0..(script.env.labels - 1)}
                                       |-> <<"label", k>>],
                  !.json_loaded = TRUE]
            /\ pc' = "create_model"
       ELSE /\ pc' = "raised"
            /\ UNCHANGED script
    /\ UNCHANGED <<self, arg, x, x_in, x2, i, encode_outputs, decode_outputs,
                   side_outputs, hw, out>>

\* model = create_model(num_classes=5)
Main_CreateModel ==
    /\ pc = "create_model"
    /\ script' = [script EXCEPT
           !.model = [created |-> TRUE, num_classes |-> NumClasses,
                      loaded |-> FALSE, training |-> TRUE, calls |-> 0]]
    /\ pc' = "load_checkpoint"
    /\ UNCHANGED <<self, arg, x, x_in, x2, i, encode_outputs, decode_outputs,
                   side_outputs, hw, out>>

\* param_dict = load_checkpoint(path) ; load_param_into_net(model, param_dict)
Main_LoadCheckpoint ==
    /\ pc = "load_checkpoint"
    /\ IF script.env.ckpt_exists
       THEN /\ script' = [script EXCEPT !.model.loaded = TRUE]
            /\ pc' = "set_train"
       ELSE /\ pc' = "raised"
            /\ UNCHANGED script
    /\ UNCHANGED <<self, arg, x, x_in, x2, i, encode_outputs, decode_outputs,
                   side_outputs, hw, out>>

\* model.set_train(False)
Main_SetTrain ==
    /\ pc = "set_train"
    /\ script' = [script EXCEPT !.model.training = FALSE]
    /\ pc' = "forward"
    /\ UNCHANGED <<self, arg, x, x_in, x2, i, encode_outputs, decode_outputs,
                   side_outputs, hw, out>>

\* output = squeeze(model(img)): num_classes scores, whatever the weights give
Main_Forward ==
    /\ pc = "forward"
    /\ \E scores \in [1..script.model.num_classes -> 0..MaxLogit] :
          script' = [script EXCEPT !.output = scores, !.model.calls = @ + 1]
    /\ pc' = "softmax"
    /\ UNCHANGED <<self, arg, x, x_in, x2, i, encode_outputs, decode_outputs,
                   side_outputs, hw, out>>

\* predict = softmax(output, axis=0) ; predict_cla = argmax(predict)
Main_Softmax ==
    /\ pc = "softmax"
    /\ script' = [script EXCEPT !.predict = softmax(script.output),
                                !.predict_cla = argmax(softmax(script.output))]
    /\ pc' = "report"
    /\ UNCHANGED <<self, arg, x, x_in, x2, i, encode_outputs, decode_outputs,
                   side_outputs, hw, out>>

\* print_res = f"class: {class_indict[str(predict_cla)]}   prob: {predict[predict_cla]}"
\* then one line per class: class_indict[str(i)] for every i
Main_Report ==
    /\ pc = "report"
    /\ IF \A k \in 0..(Len(script.predict.num) - 1) :
             str(k) \in DOMAIN script.class_indict
       THEN /\ script' = [script EXCEPT
                  !.print_res = [class |-> script.class_indict[str(script.predict_cla)],
                                 prob_num |-> script.predict.num[script.predict_cla + 1],
                                 prob_den |-> script.predict.den]]
            /\ pc' = "done"
       ELSE /\ pc' = "raised"
            /\ UNCHANGED script
    /\ UNCHANGED <<self, arg, x, x_in, x2, i, encode_outputs, decode_outputs,
                   side_outputs, hw, out>>

InitPredict ==
    /\ \E img_exists \in BOOLEAN, json_exists \in BOOLEAN, ckpt_exists \in BOOLEAN,
          w \in ImgSides, h \in ImgSides, labels \in 0..MaxLabels :
          script = [env |-> [img_exists |-> img_exists, json_exists |-> json_exists,
                             ckpt_exists |-> ckpt_exists, img_size |-> <<w, h>>,
                             labels |-> labels],
                    data_transform |-> <<>>,
                    img |-> NoImage,
                    opened |-> 0,
                    json_loaded |-> FALSE,
                    class_indict |-> [k \in {} |-> <<"label", k>>],
                    model |-> NoModel,
                    output |-> <<>>,
                    predict |-> NoPredict,
                    predict_cla |-> 0,
                    print_res |-> [class |-> <<"label", "">>, prob_num |-> 0,
                                   prob_den |-> 0]]
    /\ pc = "main"
    /\ self = [cls |-> "script"]
    /\ arg = None
    /\ x = None
    /\ x_in = None
    /\ x2 = None
    /\ i = 0
    /\ encode_outputs = <<>>
    /\ decode_outputs = <<>>
    /\ side_outputs = <<>>
    /\ hw = <<0, 0>>
    /\ out = NoValue

NextPredict ==
    \/ Main_Setup
    \/ Main_OpenImage
    \/ Main_Transform
    \/ Main_Unsqueeze
    \/ Main_LoadJson
    \/ Main_CreateModel
    \/ Main_LoadCheckpoint
    \/ Main_SetTrain
    \/ Main_Forward
    \/ Main_Softmax
    \/ Main_Report

SpecPredict == InitPredict /\ [][NextPredict]_vars

----------------------------------------------------------------------------
(* Properties of RSU and RSU4F, checked under SpecRSU *)

IsRSU == self.cls = "RSU"
IsRSU4F == self.cls = "RSU4F"

SameSize(a, b) == a.h = b.h /\ a.w = b.w

\* the encode loop has run to its end and nothing has been popped yet
EncodeLoopDone == pc = "encode" /\ i > Len(self.encode_modules)
\* the decode loop has run to its end
DecodeLoopDone == pc = "decode" /\ i > Len(self.decode_modules)

\* the encode cells that pool before their convolution
PoolingStages(cell) ==
    {k \in DOMAIN cell.encode_modules :
        cell.encode_modules[k].cls = "DownConvBNReLU" /\ cell.encode_modules[k].flag}

DownStages(cell) ==
    {k \in DOMAIN cell.encode_modules : cell.encode_modules[k].cls = "DownConvBNReLU"}

\* the last encode cell is the dilated bottleneck, and it keeps the size
BottleneckLast ==
    LET n == Len(self.encode_modules)
        b == self.encode_modules[n]
    IN  /\ b.cls = "ConvBNReLU"
        /\ b.dilation = BottleneckDilation
        /\ DownStages(self) = 1..(n - 1)
        /\ EncodeLoopDone => SameSize(encode_outputs[n], encode_outputs[n - 1])

\* C2 as stated: an RSU of height h has exactly h-1 stages that apply the
\* 2x2 stride-2 max-pool before their convolution, followed by one dilated
\* (dilation 2) bottleneck stage that does not change the spatial size.
C2_AsStated ==
    (IsRSU /\ EncodeLoopDone) =>
        /\ Cardinality(PoolingStages(self)) = self.height - 1
        /\ BottleneckLast

\* C2 amended: an RSU of height h has h-1 DownConvBNReLU stages, of which the
\* first does not pool and the other h-2 apply the max-pool before their
\* convolution (ceil(n/2) per dimension), followed by one dilated (dilation 2)
\* bottleneck stage that does not change the spatial size.
C2_DownStages ==
    IsRSU =>
        /\ Cardinality(DownStages(self)) = self.height - 1
        /\ PoolingStages(self) = 2..(self.height - 1)
        /\ Cardinality(PoolingStages(self)) = self.height - 2
        /\ BottleneckLast
        /\ \A k \in 1..Len(encode_outputs) :
              /\ k = 1 => SameSize(encode_outputs[k], arg)
              /\ k \in PoolingStages(self) =>
                    /\ encode_outputs[k].h = (encode_outputs[k - 1].h + 1) \div 2
                    /\ encode_outputs[k].w = (encode_outputs[k - 1].w + 1) \div 2

C2_Witness ==
    /\ IsRSU /\ self.height = 5 /\ EncodeLoopDone
    /\ arg.h = 19
    /\ encode_outputs[4].h = 3 /\ encode_outputs[5].h = 3

\* C3: in RSU.construct, for heights 4..7 and every input size, the decoder
\* mirrors the encoder: the bottleneck output is taken first, every decoder
\* stage consumes one encoder output, last produced first, its two inputs have
\* the same spatial size when concatenated and carry 2*mid_ch channels, the
\* stack is empty after the last decoder stage and is never popped while
\* empty, and the result added to x_in has x_in's shape (out_ch, H x W).
ShippedHeights == {c[1] : c \in {u2net_full.encode[k] : k \in 1..4}}

C3_DecoderMirrorsEncoder ==
    (IsRSU /\ self.height \in ShippedHeights) =>
        LET n == Len(self.encode_modules) IN
        /\ pc # "raised"
        /\ (pc = "decode" /\ i = 1) =>
              x.src = <<"encode", n>> /\ Len(encode_outputs) = n - 1
        /\ pc = "decode_call" =>
              LET m == self.decode_modules[i]
                  x1 == IF m.flag THEN interpolate(x, x2.h, x2.w) ELSE x
              IN  /\ x2.src = <<"encode", n - i>>
                  /\ Len(encode_outputs) = n - i - 1
                  /\ x.src = IF i = 1 THEN <<"encode", n>> ELSE <<"decode", i - 1>>
                  /\ SameSize(x1, x2)
                  /\ x1.ch = self.mid_ch /\ x2.ch = self.mid_ch
                  /\ cat(x1, x2).ch = 2 * self.mid_ch
                  /\ m.in_ch = 2 * self.mid_ch
        /\ DecodeLoopDone =>
              /\ encode_outputs = <<>>
              /\ Len(self.decode_modules) = n - 1
              /\ x.ch = self.out_ch /\ SameSize(x, x_in) /\ x.ch = x_in.ch
        /\ pc = "done" =>
              /\ out.value.ch = self.out_ch
              /\ SameSize(out.value, arg)
              /\ SameSize(x_in, arg) /\ x_in.ch = self.out_ch

C3_Witness ==
    /\ IsRSU /\ self.height = 7 /\ pc = "done"
    /\ arg.h = 33 /\ arg.w = 2
    /\ self.mid_ch # self.out_ch
    /\ out.value.h = 33

\* C4: RSU4F never changes the spatial size: no pooling, no interpolation,
\* encoder dilations 1, 2, 4, 8 and decoder dilations 4, 2, 1, each with
\* padding equal to its dilation, every intermediate tensor H x W; each
\* decoder stage concatenates the running tensor with the next encoder output
\* in reverse order, and the output added to x_in has out_ch channels.
C4_RSU4F_KeepsSize ==
    IsRSU4F =>
        LET n == Len(self.encode_modules) IN
        /\ pc # "raised"
        /\ [k \in 1..n |-> self.encode_modules[k].dilation] = <<1, 2, 4, 8>>
        /\ [k \in 1..Len(self.decode_modules) |-> self.decode_modules[k].dilation]
              = <<4, 2, 1>>
        /\ \A k \in 1..n :
              /\ self.encode_modules[k].cls = "ConvBNReLU"
              /\ self.encode_modules[k].padding = self.encode_modules[k].dilation
        /\ \A k \in 1..Len(self.decode_modules) :
              /\ self.decode_modules[k].cls = "ConvBNReLU"
              /\ self.decode_modules[k].padding = self.decode_modules[k].dilation
        /\ \A k \in 1..Len(encode_outputs) : SameSize(encode_outputs[k], arg)
        /\ pc # "conv_in" => SameSize(x, arg) /\ SameSize(x_in, arg)
        /\ pc = "decode_call" =>
              /\ x2.src = <<"encode", n - i>>
              /\ x.src = IF i = 1 THEN <<"encode", n>> ELSE <<"decode", i - 1>>
              /\ SameSize(x2, arg)
              /\ cat(x, x2).ch = self.decode_modules[i].in_ch
        /\ DecodeLoopDone => encode_outputs = <<>> /\ x.ch = self.out_ch
        /\ pc = "done" => out.value.ch = self.out_ch /\ SameSize(out.value, arg)

C4_Witness ==
    /\ IsRSU4F /\ pc = "done"
    /\ arg.h = 5 /\ arg.w = 2
    /\ self.mid_ch # self.out_ch
    /\ out.value.h = 5 /\ out.value.ch = self.out_ch

\* C9 as stated: for every height the constructor accepts (height >= 2) and
\* every in_ch, mid_ch, out_ch, the last decoder stage produces out_ch
\* channels, so x + x_in adds two tensors with the same channel count.
C9_LastDecoderOutCh ==
    (IsRSU /\ DecodeLoopDone) =>
        /\ Last(self.decode_modules).out_ch = self.out_ch
        /\ x.ch = self.out_ch
        /\ x.ch = x_in.ch

\* the statement-by-statement run and the one-call form of construct() agree
StepwiseAgrees ==
    /\ pc = "done" =>
          LET r == RSU_construct(self, arg)
          IN  r # Err /\ r.ch = out.value.ch /\ SameSize(r, out.value)
    /\ pc = "raised" => RSU_construct(self, arg) = Err

----------------------------------------------------------------------------
(* Properties of U2Net, checked under SpecU2Net *)

IsShipped == self.cfg \in Shipped

EncodeName(k) == <<"En", k>>
DecodeName(k) == <<"De", k>>

\* C1: in training mode construct returns a list, the fused output first and
\* then all side outputs (1 + number of side heads elements, 7 for the two
\* shipped networks), none passed through sigmoid; in inference mode it
\* returns one sigmoid-activated tensor with out_ch channels, never a list.
C1_ReturnValue ==
    pc = "done" =>
        IF self.training
        THEN /\ out.type = "list"
             /\ Len(out.value) = 1 + Len(side_modules(self))
             /\ IsShipped => Len(out.value) = 7
             /\ out.value[1] = x
             /\ out.value[1].src = <<"out_conv", 0>>
             /\ Tail(out.value) = side_outputs
             /\ \A k \in 1..Len(out.value) : out.value[k].fn # "sigmoid"
        ELSE /\ out.type = "Tensor"
             /\ out.value.fn = "sigmoid"
             /\ out.value.src = <<"out_conv", 0>>
             /\ out.value.ch = self.out_ch
             /\ out.value.ch = 1 \/ self.out_ch # 1

C1_Witness ==
    /\ pc = "done" /\ self.training /\ self.cfg = u2net_full
    /\ out.type = "list" /\ Len(out.value) = 7
    /\ self.out_ch = 2

\* C5: the shipped networks have six encoder and five decoder stages with
\* consistent channel counts: each encoder stage's in_ch is the channel count
\* of the tensor it receives (3, then the previous out_ch), each decoder
\* stage's in_ch is the previous stage's out_ch plus the out_ch of the encoder
\* output it is concatenated with; encoder outputs are consumed in reverse
\* order, En6 as the decoder seed, then En5 ... En1, each exactly once.
C5_ChannelsConsistent ==
    IsShipped =>
        LET enc == encode_modules(self)
            dec == decode_modules(self)
        IN
        /\ Len(enc) = 6 /\ Len(dec) = 5
        /\ pc # "raised"
        /\ (pc = "net_encode" /\ i <= Len(enc)) =>
              /\ x.ch = enc[i].in_ch
              /\ x.ch = IF i = 1 THEN ImageChannels ELSE enc[i - 1].out_ch
              /\ x.src = IF i = 1 THEN <<"input", 0>> ELSE EncodeName(i - 1)
        /\ (pc = "net_decode" /\ i = 1) =>
              x.src = EncodeName(6) /\ Len(encode_outputs) = 5
        /\ pc = "net_decode_call" =>
              /\ x2.src = EncodeName(6 - i)
              /\ x.src = IF i = 1 THEN EncodeName(6) ELSE DecodeName(i - 1)
              /\ x.ch = (IF i = 1 THEN enc[6].out_ch ELSE dec[i - 1].out_ch)
              /\ x2.ch = enc[6 - i].out_ch
              /\ dec[i].in_ch = x.ch + x2.ch
              /\ Len(encode_outputs) = 5 - i
        /\ (pc = "net_decode" /\ i > Len(dec)) => encode_outputs = <<>>

C5_Witness ==
    /\ self.cfg = u2net_full /\ pc = "net_decode_call" /\ i = 3
    /\ x.ch = 256 /\ x2.ch = 256
    /\ x2.src = EncodeName(3)

\* C6: for every input H x W >= 1 x 1 (the encoder pools with ceil_mode
\* between stages, not after the last one) every side output and the fused
\* output are exactly H x W, and each decoder stage's upsampled input has
\* the spatial size of the encoder output it is concatenated with.
CeilHalf(n) == (n + 1) \div 2

C6_SpatialSizes ==
    IsShipped =>
        /\ pc # "raised"
        /\ pc # "shape" => hw = <<arg.h, arg.w>>
        /\ \A k \in 1..Len(encode_outputs) :
              /\ k = 1 => SameSize(encode_outputs[k], arg)
              /\ k > 1 =>
                    /\ encode_outputs[k].h = CeilHalf(encode_outputs[k - 1].h)
                    /\ encode_outputs[k].w = CeilHalf(encode_outputs[k - 1].w)
        /\ (pc = "net_encode" /\ i > self.encode_num) => x = Last(encode_outputs)
        /\ pc = "net_decode_call" => SameSize(x, x2)
        /\ \A k \in 1..Len(side_outputs) : SameSize(side_outputs[k], arg)
        /\ pc \in {"net_return", "done"} => SameSize(x, arg)
        /\ pc = "done" =>
              IF self.training
              THEN \A k \in 1..Len(out.value) : SameSize(out.value[k], arg)
              ELSE SameSize(out.value, arg)

C6_Witness ==
    /\ IsShipped /\ pc = "done" /\ ~self.training
    /\ arg.h = 33 /\ arg.w = 1
    /\ Len(side_outputs) = 6
    /\ out.value.h = 33 /\ out.value.w = 1

\* C7 as stated: whatever side flags a cfg sets, every side head is applied
\* to the output of the stage it was created for (so its declared input
\* channels equal those of the tensor it receives), and stages whose flag is
\* False contribute no side output.
FlaggedStages(net) ==
    {EncodeName(k) : k \in {j \in DOMAIN net.cfg.encode : net.cfg.encode[j][6] = TRUE}}
    \cup {DecodeName(k) : k \in {j \in DOMAIN net.cfg.decode : net.cfg.decode[j][6] = TRUE}}

C7_SideHeadOnOwnStage ==
    /\ pc = "net_side_call" =>
          /\ side_modules(self)[i].stage = x.src
          /\ side_modules(self)[i].in_ch = x.ch
    /\ \A k \in 1..Len(side_outputs) : side_outputs[k].src \in FlaggedStages(self)

\* C10 as stated: for every cfg the assertions of __init__ accept, the input
\* channel count declared for the fusion convolution (encode_num * out_ch)
\* equals the channel count of the tensor it receives, the number of side
\* heads times out_ch; and construct never pops from an empty list.
C10_FusionChannelsAndPops ==
    /\ (pc = "net_side" /\ i > Len(side_modules(self))) =>
          /\ SumCh(side_outputs) = Len(side_modules(self)) * self.out_ch
          /\ self.out_conv.in_ch = SumCh(side_outputs)
    /\ ~(pc = "net_encode" /\ i > Len(encode_modules(self)) /\ encode_outputs = <<>>)
    /\ ~(pc = "net_decode" /\ i <= Len(decode_modules(self)) /\ encode_outputs = <<>>)
    /\ ~(pc = "net_side" /\ i <= Len(side_modules(self)) /\ decode_outputs = <<>>)

----------------------------------------------------------------------------
(* Properties of predict.main(), checked under SpecPredict *)

At(labels) == pc \in labels

AfterTransform ==
    At({"unsqueeze", "assert_json", "create_model", "load_checkpoint",
        "set_train", "forward", "softmax", "report", "done"})
AfterUnsqueeze == AfterTransform /\ pc # "unsqueeze"
AfterSoftmax == At({"report", "done"})

\* C8: the script handles one image per run, in a fixed order: both
\* file-existence assertions pass before the model is created; the image is
\* resized to 384, center-cropped to 384, made a tensor, normalized with mean
\* and std 0.5, then given a batch dimension; the checkpoint is loaded and
\* the model taken out of training mode before the single forward pass;
\* softmax is over the 5 scores and the reported class is the argmax, an
\* index in 0..4 looked up in class_indict, whose score is the largest.
C8_PredictOrder ==
    LET m == script.model
        p == script.predict
        c == script.predict_cla
    IN
    /\ script.opened <= 1 /\ m.calls <= 1
    /\ m.created =>
          /\ script.env.img_exists /\ script.opened = 1
          /\ script.env.json_exists /\ script.json_loaded
          /\ m.num_classes = NumClasses
    /\ (AfterTransform /\ pc = "unsqueeze") =>
          /\ script.img.history = <<"Resize", "CenterCrop", "ToTensor", "Normalize">>
          /\ script.img.shape = <<ImageChannels, ValSize, ValSize>>
    /\ AfterUnsqueeze =>
          /\ script.img.history =
                <<"Resize", "CenterCrop", "ToTensor", "Normalize", "unsqueeze">>
          /\ script.img.shape = <<1, ImageChannels, ValSize, ValSize>>
          /\ script.img.kind = "Tensor"
          /\ script.img.lo2 = -2 /\ script.img.hi2 = 2
    /\ m.calls = 1 => m.loaded /\ ~m.training /\ script.env.ckpt_exists
    /\ At({"softmax", "report", "done"}) => m.calls = 1 /\ Len(script.output) = NumClasses
    /\ AfterSoftmax =>
          /\ Len(p.num) = NumClasses
          /\ p.den = SumSeq(p.num)
          /\ c \in 0..(NumClasses - 1)
          /\ \A k \in 1..NumClasses :
                /\ p.num[k] <= p.num[c + 1]
                /\ script.output[k] <= script.output[c + 1]
    /\ pc = "done" =>
          /\ script.print_res.class = script.class_indict[str(c)]
          /\ script.print_res.prob_num = p.num[c + 1]
          /\ \A k \in 1..NumClasses : p.num[k] <= script.print_res.prob_num

C8_Witness ==
    /\ pc = "done"
    /\ script.env.img_size = <<500, 200>>
    /\ script.output = <<0, 1, 0, 2, 1>>
    /\ script.predict_cla = 3
    /\ script.print_res.class = <<"label", "3">>

=============================================================================
